---- MODULE Spec2Model ----
(***************************************************************************)
(* A model of src/src/grid_parser.py: the URL conversion, the sliding      *)
(* window extraction of (x, y, char) entries from a token stream, and the  *)
(* fallback / grid assembly / printing pipeline of print_grid_from_doc.    *)
(*                                                                         *)
(* A Python str is modelled as a sequence of one-character strings, so     *)
(* that len(), lstrip(), isdigit(), int() and "".join() are computed on    *)
(* the characters as Python computes them.                                 *)
(***************************************************************************)
EXTENDS Integers, Sequences, FiniteSets

VARIABLES
    pc,             \* position in the function being run
    doc_url,        \* argument of _convert_to_export_url
    export_url,     \* its return value
    text,           \* response.text, by what its two readers see of it
    BeautifulSoup,  \* whether the bs4 import succeeded
    tokens,         \* local of print_grid_from_doc
    data,           \* local of print_grid_from_doc / argument of extract_entries
    entries,        \* local of print_grid_from_doc
    source,         \* which scan produced the entries handed to assembly
    grid,           \* local of print_grid_from_doc
    k,              \* position of the placement loop in entries
    out,            \* rows printed so far, in print order
    no_entries,     \* whether the "No entries found!" line was printed
    exc             \* exception that ended the call, or "none"

vars == <<pc, doc_url, export_url, text, BeautifulSoup, tokens, data, entries,
          source, grid, k, out, no_entries, exc>>

----
(* Bounds of the model.                                                    *)

MaxTokens == 4
MaxGroups == 2
MaxChunks == 2
MaxCellChunks == 1
MaxEntries == 2
MaxX == 2
MaxY == 1
MaxUrlLen == 7

----
(* Python str primitives on sequences of characters.                       *)

\* Characters c with c.isdecimal(): the ones int() reads.
DecimalChars == {"0", "1", "2", "3", "4", "5", "6", "7", "8", "9"}

\* Characters c with c.isdigit(): the decimals and digits such as the
\* superscript two (U+00B2, written "SUP2" here), which int() rejects.
DigitChars == DecimalChars \cup {"SUP2"}

SeqUpTo(S, n) == UNION {[1..m -> S] : m \in 0..n}

RECURSIVE lstrip(_, _)
lstrip(s, c) ==
    IF s # <<>> /\ Head(s) = c THEN lstrip(Tail(s), c) ELSE s

isdigit(s) == Len(s) > 0 /\ \A j \in 1..Len(s) : s[j] \in DigitChars

DigitValue(c) ==
    CASE c = "0" -> 0 [] c = "1" -> 1 [] c = "2" -> 2 [] c = "3" -> 3
      [] c = "4" -> 4 [] c = "5" -> 5 [] c = "6" -> 6 [] c = "7" -> 7
      [] c = "8" -> 8 [] c = "9" -> 9

RECURSIVE DecimalValue(_)
DecimalValue(s) ==
    IF s = <<>> THEN 0
    ELSE 10 * DecimalValue(SubSeq(s, 1, Len(s) - 1)) + DigitValue(s[Len(s)])

\* The sign and digits part of int(s), for s without blanks or underscores.
IntBody(s) == IF s # <<>> /\ Head(s) \in {"-", "+"} THEN Tail(s) ELSE s

\* int(s) returns (does not raise ValueError).
int_ok(s) ==
    /\ Len(IntBody(s)) > 0
    /\ \A j \in 1..Len(IntBody(s)) : IntBody(s)[j] \in DecimalChars

int(s) ==
    IF s # <<>> /\ Head(s) = "-" THEN 0 - DecimalValue(IntBody(s))
    ELSE DecimalValue(IntBody(s))

----
(* extract_entries                                                         *)

\* The test of line 49 on a window.
IsTriple(xs, ch, ys) ==
    isdigit(lstrip(xs, "-")) /\ isdigit(lstrip(ys, "-")) /\ Len(ch) = 1

\* The while loop of lines 47-53 from index i (0-based, as in the source).
\* The result says whether int() raised ValueError at line 50.
RECURSIVE extract_loop(_, _, _)
extract_loop(toks, i, acc) ==
    IF ~(i < Len(toks) - 2) THEN [raised |-> FALSE, entries |-> acc]
    ELSE LET xs == toks[i + 1]
             ch == toks[i + 2]
             ys == toks[i + 3]
         IN  IF IsTriple(xs, ch, ys)
             THEN IF int_ok(xs) /\ int_ok(ys)
                  THEN extract_loop(toks, i + 3,
                                    Append(acc, <<int(xs), int(ys), ch>>))
                  ELSE [raised |-> TRUE, entries |-> acc]
             ELSE extract_loop(toks, i + 1, acc)

extract_entries(toks) == extract_loop(toks, 0, <<>>)

\* Variant: tokens[2:].
Drop3_Two(s) == IF Len(s) <= 2 THEN <<>> ELSE SubSeq(s, 3, Len(s))

\* tokens[3:]
Drop3(s) == IF Len(s) <= 3 THEN <<>> ELSE SubSeq(s, 4, Len(s))

----
(* Inputs.                                                                 *)

\* Tokens the extraction is run on: integer literals, single characters,
\* and the malformed shapes.
Tok == { <<"0">>, <<"1", "2">>, <<"-", "1">>, <<"-", "-", "1">>, <<"-">>,
         <<"A">>, <<"A", "B">>, <<"1", "-">>, <<>>, <<"SUP2">> }

NoTable == [found |-> FALSE, cells |-> <<>>]

Idle ==
    /\ doc_url = <<>> /\ export_url = <<>>
    /\ text = [tokens |-> <<>>, table |-> NoTable]
    /\ BeautifulSoup = FALSE
    /\ tokens = <<>> /\ entries = <<>> /\ source = "none"
    /\ grid = <<>> /\ k = 0 /\ out = <<>> /\ no_entries = FALSE
    /\ exc = "none"

\* extract_entries called on an arbitrary token list.
InitExtract ==
    /\ pc = "scan"
    /\ data \in SeqUpTo(Tok, MaxTokens)
    /\ Idle

\* A document of three header tokens followed by well-formed groups
\* <x> <char> <y>.
HdrTok == { <<"h", "d", "r">>, <<"0">> }
IntLit == { <<"0">>, <<"-", "1">> }
CharTok == { <<"A">>, <<"1">>, <<"-">> }
Group == { <<x, c, y>> : x \in IntLit, c \in CharTok, y \in IntLit }

RECURSIVE Flatten(_)
Flatten(ss) == IF ss = <<>> THEN <<>> ELSE Head(ss) \o Flatten(Tail(ss))

InitGroups ==
    /\ pc = "start"
    /\ \E hdr \in [1..3 -> HdrTok], gs \in SeqUpTo(Group, MaxGroups) :
           text = [tokens |-> hdr \o Flatten(gs), table |-> NoTable]
    /\ doc_url = <<>> /\ export_url = <<>>
    /\ BeautifulSoup = FALSE
    /\ tokens = <<>> /\ data = <<>> /\ entries = <<>> /\ source = "none"
    /\ grid = <<>> /\ k = 0 /\ out = <<>> /\ no_entries = FALSE
    /\ exc = "none"

----
(* print_grid_from_doc                                                     *)

\* Lines 78-81: tokens = re.split(r"\s+", text.strip()); data = tokens[3:].
Tokenize ==
    /\ pc = "start"
    /\ tokens' = text.tokens
    /\ data' = Drop3(text.tokens)
    /\ pc' = "scan"
    /\ UNCHANGED <<doc_url, export_url, text, BeautifulSoup, entries, source,
                   grid, k, out, no_entries, exc>>

\* Lines 96-97: entries = extract_entries(data).
Primary ==
    /\ pc = "scan"
    /\ LET r == extract_entries(data)
       IN  IF r.raised
           THEN /\ exc' = "ValueError" /\ pc' = "raised"
                /\ UNCHANGED <<entries, source>>
           ELSE /\ entries' = r.entries /\ source' = "primary"
                /\ pc' = "fallback" /\ UNCHANGED exc
    /\ UNCHANGED <<doc_url, export_url, text, BeautifulSoup, tokens, data,
                   grid, k, out, no_entries>>

\* Variant: the fallback is tried only when the first scan found nothing.
NeedFallback_OnlyWhenEmpty(es, d, bs) == es = <<>> /\ bs

\* Line 100: (not entries or len(data) % 3 != 0) and BeautifulSoup.
NeedFallback(es, d, bs) == (es = <<>> \/ Len(d) % 3 # 0) /\ bs

\* Lines 100-107: the HTML table fallback. soup.find('table') is
\* text.table; the cell texts replace tokens and data, and the second scan
\* replaces entries whatever it yields.
Fallback ==
    /\ pc = "fallback"
    /\ IF NeedFallback(entries, data, BeautifulSoup) /\ text.table.found
       THEN /\ tokens' = text.table.cells
            /\ data' = Drop3(text.table.cells)
            /\ LET r == extract_entries(Drop3(text.table.cells))
               IN  IF r.raised
                   THEN /\ exc' = "ValueError" /\ pc' = "raised"
                        /\ UNCHANGED <<entries, source>>
                   ELSE /\ entries' = r.entries /\ source' = "fallback"
                        /\ pc' = "check" /\ UNCHANGED exc
       ELSE /\ pc' = "check"
            /\ UNCHANGED <<tokens, data, entries, source, exc>>
    /\ UNCHANGED <<doc_url, export_url, text, BeautifulSoup, grid, k, out,
                   no_entries>>

Max(S) == CHOOSE m \in S : \A n \in S : n <= m

\* Lines 115-117.
max_x(es) == Max({es[j][1] : j \in 1..Len(es)})
max_y(es) == Max({es[j][2] : j \in 1..Len(es)})
width(es) == max_x(es) + 1
height(es) == max_y(es) + 1

\* Variant: the cells start as empty strings instead of blanks.
NewGrid_EmptyFill(w, h) == [r \in 1..h |-> [c \in 1..w |-> <<>>]]

\* Line 120: [[" "] * width for _ in range(height)]; a count below 1 gives
\* an empty list.
NewGrid(w, h) == [r \in 1..h |-> [c \in 1..w |-> <<" ">>]]

\* Lines 111-120: the "no entries" exit, or the allocation of the grid.
Allocate ==
    /\ pc = "check"
    /\ IF entries = <<>>
       THEN /\ no_entries' = TRUE /\ pc' = "done"
            /\ UNCHANGED <<grid, k>>
       ELSE /\ grid' = NewGrid(width(entries), height(entries))
            /\ k' = 0 /\ pc' = "place"
            /\ UNCHANGED no_entries
    /\ UNCHANGED <<doc_url, export_url, text, BeautifulSoup, tokens, data,
                   entries, source, out, exc>>

\* A Python list index i on a list of n items: the 0-based position read,
\* with negative indices counted from the end; -1 stands for IndexError.
PyIndex(i, n) ==
    IF 0 <= i /\ i < n THEN i
    ELSE IF 0 - n <= i /\ i < 0 THEN i + n
    ELSE -1

\* Variant: a cell already written keeps its character.
SetCell_FirstWins(g, r, c, ch) ==
    IF g[r + 1][c + 1] = <<" ">> THEN [g EXCEPT ![r + 1][c + 1] = ch] ELSE g

\* The list after grid[r][c] = ch, r and c being 0-based positions.
SetCell(g, r, c, ch) == [g EXCEPT ![r + 1][c + 1] = ch]

\* Lines 121-122: one iteration of "for x, y, ch in entries".
Place ==
    /\ pc = "place"
    /\ k < Len(entries)
    /\ LET x == entries[k + 1][1]
           y == entries[k + 1][2]
           ch == entries[k + 1][3]
           r == PyIndex(y, Len(grid))
           c == IF r = -1 THEN -1 ELSE PyIndex(x, Len(grid[r + 1]))
       IN  IF r = -1 \/ c = -1
           THEN /\ exc' = "IndexError" /\ pc' = "raised"
                /\ UNCHANGED <<grid, k>>
           ELSE /\ grid' = SetCell(grid, r, c, ch)
                /\ k' = k + 1
                /\ UNCHANGED <<pc, exc>>
    /\ UNCHANGED <<doc_url, export_url, text, BeautifulSoup, tokens, data,
                   entries, source, out, no_entries>>

\* "".join(row)
join(row) == Flatten(row)

\* Variant: range(height), the order of debug_print_grid.
RowOrder_TopDown(h) == [i \in 1..h |-> i - 1]

\* range(height - 1, -1, -1)
RowOrder(h) == [i \in 1..h |-> h - i]

\* Lines 124-126: the rows are printed once the placement loop is over.
PrintRows ==
    /\ pc = "place"
    /\ k = Len(entries)
    /\ out' = [i \in 1..height(entries) |->
                  join(grid[RowOrder(height(entries))[i] + 1])]
    /\ pc' = "done"
    /\ UNCHANGED <<doc_url, export_url, text, BeautifulSoup, tokens, data,
                   entries, source, grid, k, no_entries, exc>>

\* The lists extract_entries can hand to the assembly: any integers with any
\* one-character strings.
EntrySet == { <<x, y, c>> : x \in -1..MaxX, y \in -1..MaxY,
                            c \in {<<"A">>, <<"B">>} }

InitGrid ==
    /\ pc = "check"
    /\ entries \in SeqUpTo(EntrySet, MaxEntries)
    /\ source = "primary"
    /\ doc_url = <<>> /\ export_url = <<>>
    /\ text = [tokens |-> <<>>, table |-> NoTable]
    /\ BeautifulSoup = FALSE
    /\ tokens = <<>> /\ data = <<>>
    /\ grid = <<>> /\ k = 0 /\ out = <<>> /\ no_entries = FALSE
    /\ exc = "none"

NextGrid == Allocate \/ Place \/ PrintRows

SpecGrid == InitGrid /\ [][NextGrid]_vars

\* A fetched document: three header tokens, then groups and stray tokens;
\* and the table BeautifulSoup finds in it, if any: three header cells, then
\* groups and stray cells. A text with a table holds a token with markup.
Word == <<"h", "d", "r">>
Markup == <<"<", "t">>
Headers == { <<Word, Word, Word>>, <<Markup, Word, Word>> }
BodyChunk == { << <<"0">>, <<"A">>, <<"0">> >>,
               << <<"1">>, <<"A">>, <<"0">> >>,
               << <<"0">>, <<"B">>, <<"1">> >>,
               << <<"-", "1">>, <<"B">>, <<"0">> >>,
               << <<"-", "-", "1">>, <<"B">>, <<"0">> >>,
               << Word >>,
               << Markup >> }
CellChunk == { << <<"0">>, <<"X">>, <<"0">> >>,
               << <<"0">>, <<"Y">>, <<"1">> >>,
               << Word >> }
Tables == {NoTable} \cup
          { [found |-> TRUE, cells |-> <<Word, Word, Word>> \o Flatten(cs)] :
              cs \in SeqUpTo(CellChunk, MaxCellChunks) }

\* re.split(r"\s+", "") is [""]: an empty document gives one empty token.
EmptyText == << <<>> >>

HasMarkup(toks) == \E j \in 1..Len(toks) : toks[j] = Markup

Init ==
    /\ pc = "start"
    /\ \/ \E hdr \in Headers, body \in SeqUpTo(BodyChunk, MaxChunks),
             tbl \in Tables :
              /\ tbl.found => HasMarkup(hdr \o Flatten(body))
              /\ text = [tokens |-> hdr \o Flatten(body), table |-> tbl]
       \/ text = [tokens |-> EmptyText, table |-> NoTable]
    /\ BeautifulSoup \in BOOLEAN
    /\ doc_url = <<>> /\ export_url = <<>>
    /\ tokens = <<>> /\ data = <<>> /\ entries = <<>> /\ source = "none"
    /\ grid = <<>> /\ k = 0 /\ out = <<>> /\ no_entries = FALSE
    /\ exc = "none"

Next == Tokenize \/ Primary \/ Fallback \/ Allocate \/ Place \/ PrintRows

Spec == Init /\ [][Next]_vars

NextExtract == Primary

SpecExtract == InitExtract /\ [][NextExtract]_vars

NextGroups == Tokenize \/ Primary

SpecGroups == InitGroups /\ [][NextGroups]_vars

----
(* _convert_to_export_url                                                  *)

\* \w, for ASCII text: letters, digits and the underscore.
WordChars ==
    {"a", "b", "c", "d", "e", "f", "g", "h", "i", "j", "k", "l", "m", "n",
     "o", "p", "q", "r", "s", "t", "u", "v", "w", "x", "y", "z",
     "A", "B", "C", "D", "E", "F", "G", "H", "I", "J", "K", "L", "M", "N",
     "O", "P", "Q", "R", "S", "T", "U", "V", "W", "X", "Y", "Z",
     "_"} \cup DecimalChars

\* The class [-\w].
IdChars == WordChars \cup {"-"}

Min(S) == CHOOSE m \in S : \A n \in S : m <= n

\* The literal lit stands in u at position p (1-based).
LitAt(u, p, lit) ==
    p + Len(lit) - 1 <= Len(u) /\ SubSeq(u, p, p + Len(lit) - 1) = lit

\* The ends e of a group ([-\w]+) that starts at position s and is followed
\* by "/".
GroupEnds(u, s) ==
    { e \in s..(Len(u) - 1) :
          (\A j \in s..e : u[j] \in IdChars) /\ u[e + 1] = "/" }

\* re.search(lit + r"([-\w]+)/", u): the leftmost match, its group taken
\* greedily. found is FALSE for None; group is m.group(1).
search(u, lit) ==
    LET starts == { p \in 1..Len(u) :
                      LitAt(u, p, lit) /\ GroupEnds(u, p + Len(lit)) # {} }
    IN  IF starts = {} THEN [found |-> FALSE, group |-> <<>>]
        ELSE LET s == Min(starts) + Len(lit)
             IN  [found |-> TRUE,
                  group |-> SubSeq(u, s, Max(GroupEnds(u, s)))]

\* "https://docs.google.com/document/d/"
DocPrefix ==
    <<"h", "t", "t", "p", "s", ":", "/", "/", "d", "o", "c", "s", ".", "g",
    "o", "o", "g", "l", "e", ".", "c", "o", "m", "/", "d", "o", "c", "u",
    "m", "e", "n", "t", "/", "d", "/">>

\* "e/"
PubMark == <<"e", "/">>

\* "/pub?output=txt"
PubSuffix ==
    <<"/", "p", "u", "b", "?", "o", "u", "t", "p", "u", "t", "=", "t", "x",
    "t">>

\* "/export?format=txt"
ExportSuffix ==
    <<"/", "e", "x", "p", "o", "r", "t", "?", "f", "o", "r", "m", "a", "t",
    "=", "t", "x", "t">>

\* Variant: the edit branch formats its result as the published branch does.
_convert_to_export_url_PubSuffix(url) ==
    LET pub == search(url, <<"/", "d", "/", "e", "/">>)
        doc == search(url, <<"/", "d", "/">>)
    IN  IF pub.found
        THEN [raised |-> FALSE,
              url |-> DocPrefix \o PubMark \o pub.group \o PubSuffix]
        ELSE IF ~doc.found THEN [raised |-> TRUE, url |-> <<>>]
        ELSE [raised |-> FALSE, url |-> DocPrefix \o doc.group \o PubSuffix]

\* Lines 16-27. raised is the ValueError of line 25.
_convert_to_export_url(url) ==
    LET pub == search(url, <<"/", "d", "/", "e", "/">>)
        doc == search(url, <<"/", "d", "/">>)
    IN  IF pub.found
        THEN [raised |-> FALSE,
              url |-> DocPrefix \o PubMark \o pub.group \o PubSuffix]
        ELSE IF ~doc.found THEN [raised |-> TRUE, url |-> <<>>]
        ELSE [raised |-> FALSE,
              url |-> DocPrefix \o doc.group \o ExportSuffix]

\* The characters the URLs are drawn from: the separator, the letters of
\* "/d/" and "/d/e/", the dash, and one character outside [-\w].
UrlChars == {"/", "d", "e", "-", "?"}

InitUrl ==
    /\ pc = "convert"
    /\ doc_url \in SeqUpTo(UrlChars, MaxUrlLen)
    /\ export_url = <<>>
    /\ text = [tokens |-> <<>>, table |-> NoTable]
    /\ BeautifulSoup = FALSE
    /\ tokens = <<>> /\ data = <<>> /\ entries = <<>> /\ source = "none"
    /\ grid = <<>> /\ k = 0 /\ out = <<>> /\ no_entries = FALSE
    /\ exc = "none"

\* A call of _convert_to_export_url(doc_url).
ConvertUrl ==
    /\ pc = "convert"
    /\ LET r == _convert_to_export_url(doc_url)
       IN  IF r.raised
           THEN /\ exc' = "ValueError" /\ pc' = "raised"
                /\ UNCHANGED export_url
           ELSE /\ export_url' = r.url /\ pc' = "converted"
                /\ UNCHANGED exc
    /\ UNCHANGED <<doc_url, text, BeautifulSoup, tokens, data, entries,
                   source, grid, k, out, no_entries>>

NextUrl == ConvertUrl

SpecUrl == InitUrl /\ [][NextUrl]_vars

----
(* Claims about extract_entries.                                           *)

\* The integer literals of the reference scan: a non-empty string of decimal
\* digits, optionally prefixed by a single '-'.
RefIntLit(s) ==
    LET b == IF s # <<>> /\ Head(s) = "-" THEN Tail(s) ELSE s
    IN  Len(b) > 0 /\ \A j \in 1..Len(b) : b[j] \in DecimalChars

RECURSIVE RefScan(_, _, _)
RefScan(toks, i, acc) ==
    IF Len(toks) - i < 3 THEN acc
    ELSE IF /\ RefIntLit(toks[i + 1])
            /\ RefIntLit(toks[i + 3])
            /\ Len(toks[i + 2]) = 1
         THEN RefScan(toks, i + 3,
                      Append(acc, <<int(toks[i + 1]), int(toks[i + 3]),
                                    toks[i + 2]>>))
         ELSE RefScan(toks, i + 1, acc)

Scanned == pc \in {"fallback", "raised"}

\* C2: for every token sequence, extract_entries returns exactly the list
\* of the reference sliding-window scan, whose integer test admits a single
\* leading '-' only.
C2_ExtractIsReferenceScan ==
    Scanned => exc = "none" /\ entries = RefScan(data, 0, <<>>)

\* C4: extract_entries never raises, whatever the tokens are.
C4_ExtractNeverRaises == exc # "ValueError"

\* C3: three header tokens followed by N well-formed groups give exactly N
\* entries, the j-th being (x_j, y_j, char_j) of the j-th group.
C3_WellFormedGroupsRecovered ==
    pc = "fallback" =>
        LET t == text.tokens
            n == (Len(t) - 3) \div 3
        IN  /\ Len(entries) = n
            /\ \A j \in 1..n :
                   entries[j] = <<int(t[3 * j + 1]), int(t[3 * j + 3]),
                                  t[3 * j + 2]>>

\* Two groups recovered behind a header token that is itself an integer, the
\* first group's character being a digit.
C3_Witness ==
    /\ pc = "fallback"
    /\ Len(entries) = 2
    /\ text.tokens[3] = <<"0">>
    /\ entries[1] = <<0, -1, <<"1">>>>

----
(* Claims about print_grid_from_doc.                                       *)

PrimaryYield == extract_entries(Drop3(text.tokens)).entries
FallbackYield == extract_entries(Drop3(text.table.cells)).entries
TableRead == BeautifulSoup /\ text.table.found
Rendered == pc = "done" /\ ~no_entries

\* C1: "No entries found!" is reported exactly when neither the primary
\* scan nor the table fallback scan yields an entry; when either yields
\* one, a grid is printed instead. Stated of the calls that return.
C1_NoEntriesIffBothScansEmpty ==
    pc = "done" =>
        IF PrimaryYield # <<>> \/ (TableRead /\ FallbackYield # <<>>)
        THEN ~no_entries /\ out # <<>>
        ELSE no_entries /\ out = <<>>

----
(* Claims about the grid assembly.                                         *)

NonNegative(es) == \A j \in 1..Len(es) : es[j][1] >= 0 /\ es[j][2] >= 0
Assembled == (pc = "place" /\ k = Len(entries)) \/ Rendered
Occupied(es, x, y) == \E j \in 1..Len(es) : es[j][1] = x /\ es[j][2] = y

\* C5: with non-negative coordinates, the assembled cell [y][x] of every
\* coordinate of an entry holds the character of the last entry, in list
\* order, with that coordinate.
C5_LastWriteWins ==
    Assembled /\ NonNegative(entries) =>
        \A j \in 1..Len(entries) :
            LET x == entries[j][1]
                y == entries[j][2]
                last == Max({i \in 1..Len(entries) :
                                entries[i][1] = x /\ entries[i][2] = y})
            IN  grid[y + 1][x + 1] = entries[last][3]

\* Two entries at one coordinate with different characters, the later one
\* in the cell.
C5_Witness ==
    /\ Assembled
    /\ NonNegative(entries)
    /\ Len(entries) = 2
    /\ entries[1][1] = entries[2][1]
    /\ entries[1][2] = entries[2][2]
    /\ entries[1][3] # entries[2][3]
    /\ grid[entries[2][2] + 1][entries[2][1] + 1] = entries[2][3]

\* C6: with non-negative coordinates, the output has max(y)+1 rows of
\* max(x)+1 characters each, and every cell of a coordinate that no entry
\* has is the blank.
C6_GridSizing ==
    Rendered /\ NonNegative(entries) =>
        /\ Len(out) = max_y(entries) + 1
        /\ \A i \in 1..Len(out) : Len(out[i]) = max_x(entries) + 1
        /\ \A y \in 0..max_y(entries), x \in 0..max_x(entries) :
               ~Occupied(entries, x, y) =>
                   out[height(entries) - y][x + 1] = " "

\* Entries at (0,0) and (2,1): two rows of three characters, blanks between.
C6_Witness ==
    /\ Rendered
    /\ Occupied(entries, 0, 0) /\ Occupied(entries, 2, 1)
    /\ Len(out) = 2 /\ Len(out[1]) = 3 /\ Len(out[2]) = 3
    /\ out[2][2] = " "

\* C10: every write grid[y][x] of the assembly addresses the entry's own
\* cell, 0 <= y < height and 0 <= x < width, for every entry list
\* extract_entries can produce; no write falls outside the buffer.
C10_WritesInBounds ==
    /\ exc # "IndexError"
    /\ pc = "place" /\ k < Len(entries) =>
           /\ 0 <= entries[k + 1][2] /\ entries[k + 1][2] < height(entries)
           /\ 0 <= entries[k + 1][1] /\ entries[k + 1][1] < width(entries)

----
(* Claims about _convert_to_export_url.                                    *)

\* The text from position p up to the next "/" or the end of u.
RECURSIVE UpToSlash(_, _)
UpToSlash(u, p) ==
    IF p > Len(u) \/ u[p] = "/" THEN <<>> ELSE <<u[p]>> \o UpToSlash(u, p + 1)

\* From position p on, a non-empty run of characters of [-\w] closed by "/".
IdAt(u, p) ==
    LET id == UpToSlash(u, p)
    IN  /\ id # <<>>
        /\ p + Len(id) <= Len(u)
        /\ \A j \in 1..Len(id) : id[j] \in IdChars

\* A path segment /d/<ID>/ starts at position p of u.
SegmentAt(u, p) ==
    /\ p + 2 <= Len(u)
    /\ u[p] = "/" /\ u[p + 1] = "d" /\ u[p + 2] = "/"
    /\ IdAt(u, p + 3)

SegmentId(u, p) == UpToSlash(u, p + 3)
Segments(u) == { p \in 1..Len(u) : SegmentAt(u, p) }

\* A published-form URL holds /d/e/<PUB_ID>/.
PublishedForm(u) ==
    \E p \in Segments(u) : SegmentId(u, p) = <<"e">> /\ IdAt(u, p + 5)

ExportOf(id) == DocPrefix \o id \o ExportSuffix

Converted == pc \in {"converted", "raised"}

\* C8 as stated: for an edit-form URL (one that is not of the published
\* form) and every path segment /d/<ID>/ of it, the result is the export
\* URL of that ID.
C8_ExportUrlOfEverySegmentId ==
    Converted /\ ~PublishedForm(doc_url) =>
        \A p \in Segments(doc_url) :
            exc = "none" /\ export_url = ExportOf(SegmentId(doc_url, p))

\* C8 amended: for a URL that is not of the published form and holds a path
\* segment /d/<ID>/, the result is the export URL of the ID of the first
\* such segment.
C8_ExportUrlOfFirstSegmentId ==
    Converted /\ ~PublishedForm(doc_url) /\ Segments(doc_url) # {} =>
        /\ exc = "none"
        /\ export_url = ExportOf(SegmentId(doc_url, Min(Segments(doc_url))))

\* A URL with two segments of different IDs, converted by the first.
C8_Witness ==
    /\ pc = "converted"
    /\ ~PublishedForm(doc_url)
    /\ \E p, q \in Segments(doc_url) :
           p < q /\ SegmentId(doc_url, p) # SegmentId(doc_url, q)
    /\ export_url = ExportOf(SegmentId(doc_url, Min(Segments(doc_url))))

====
